---- MODULE Spec2Model ----
(***************************************************************************)
(* A model of the repository-resolution pipeline of github-pera1-workers:  *)
(* processGitHubRepository (src/src/github.ts) and the browser             *)
(* collaborator's error mapping (src/src/app.ts).                          *)
(*                                                                         *)
(* JavaScript strings are TLA+ strings; TLC evaluates Len, \o and SubSeq   *)
(* on them, so startsWith, endsWith, includes, split, trim, toLowerCase    *)
(* and the regular expressions of the source are computed character by     *)
(* character.  The value `undefined` is the string Undefined, which no     *)
(* input contains.                                                         *)
(***************************************************************************)
EXTENDS Integers, Sequences, FiniteSets, TLC

VARIABLES
  pc,                \* position in processGitHubRepository / the web handler
  params,            \* the request descriptor { url, dir, ext, branch, file, mode }
  upstream,          \* environment: the response codeload gives to the k-th request
  repoFiles,         \* environment: the members of the archive codeload serves
  owner, repo,       \* segments[0], segments[1]
  pathBranch, pathTargetDirs, pathTargetFile,
  finalTargetDirs, targetExts, targetFile, isTreeMode,
  branch,            \* let branch
  requests,          \* the calls of fetchZip so far: <<[branch, resp]>>
  zipResp,           \* let zipResp
  fbIndex,           \* position of the for-loop over defaultBranches
  jszip,             \* the decompressed archive: sequence of members
  rootPrefix, hasTsConfig,
  scanIndex,         \* position of the for-loop over Object.values(jszip.files)
  fileTree,          \* Map in insertion order: <<[path, size, content, isTruncated]>>
  originalTotalSize, displayTotalSize,
  reads,             \* names of the members whose content was read (fileObj.async)
  outcome,           \* what the promise settled with: none / text / error
  httpStatus         \* the status the web handler answered with (0: not yet)

vars == <<pc, params, upstream, repoFiles, owner, repo, pathBranch, pathTargetDirs,
          pathTargetFile, finalTargetDirs, targetExts, targetFile, isTreeMode, branch,
          requests, zipResp, fbIndex, jszip, rootPrefix, hasTsConfig, scanIndex,
          fileTree, originalTotalSize, displayTotalSize, reads, outcome, httpStatus>>

Undefined == "<undefined>"

\* JavaScript truthiness of a string-or-undefined value
Truthy(v) == v # Undefined /\ v # ""

(***************************************************************************)
(* String primitives of the JavaScript runtime                             *)
(***************************************************************************)
StartsWith(s, p) == Len(p) <= Len(s) /\ SubSeq(s, 1, Len(p)) = p

EndsWith(s, p) == Len(p) <= Len(s) /\ SubSeq(s, Len(s) - Len(p) + 1, Len(s)) = p

Includes(s, sub) == \E i \in 1..(Len(s) - Len(sub) + 1) : SubSeq(s, i, i + Len(sub) - 1) = sub

CharAt(s, i) == SubSeq(s, i, i)

Slice(s, from) == SubSeq(s, from + 1, Len(s))

UpperLetters == "ABCDEFGHIJKLMNOPQRSTUVWXYZ"

LowerLetters == "abcdefghijklmnopqrstuvwxyz"

LowerChar(c) ==
  IF \E i \in 1..Len(UpperLetters) : CharAt(UpperLetters, i) = c
  THEN CharAt(LowerLetters, CHOOSE i \in 1..Len(UpperLetters) : CharAt(UpperLetters, i) = c)
  ELSE c

RECURSIVE ToLowerCase(_)
ToLowerCase(s) ==
  IF s = "" THEN "" ELSE LowerChar(CharAt(s, 1)) \o ToLowerCase(Slice(s, 1))

\* String.prototype.split with a one-character separator
RECURSIVE SplitFrom(_, _, _)
SplitFrom(s, sep, cur) ==
  IF s = "" THEN <<cur>>
  ELSE IF CharAt(s, 1) = sep THEN <<cur>> \o SplitFrom(Slice(s, 1), sep, "")
  ELSE SplitFrom(Slice(s, 1), sep, cur \o CharAt(s, 1))

Split(s, sep) == SplitFrom(s, sep, "")

RECURSIVE Join(_, _)
Join(parts, sep) ==
  IF Len(parts) = 0 THEN ""
  ELSE IF Len(parts) = 1 THEN parts[1]
  ELSE parts[1] \o sep \o Join(Tail(parts), sep)

\* Array.prototype.filter(Boolean) / filter((d) => d) on strings
FilterNonEmpty(parts) == SelectSeq(parts, LAMBDA p : p # "")

\* xs[i] of a JavaScript array (0-based): undefined outside it
At(xs, i) == IF i + 1 \in 1..Len(xs) THEN xs[i + 1] ELSE Undefined

IsSpace(c) == c = " " \/ c = "\t" \/ c = "\n"

RECURSIVE TrimStart(_)
TrimStart(s) == IF s # "" /\ IsSpace(CharAt(s, 1)) THEN TrimStart(Slice(s, 1)) ELSE s

RECURSIVE TrimEnd(_)
TrimEnd(s) ==
  IF s # "" /\ IsSpace(CharAt(s, Len(s))) THEN TrimEnd(SubSeq(s, 1, Len(s) - 1)) ELSE s

Trim(s) == TrimEnd(TrimStart(s))

\* d.replace(/^\/+/, "")
RECURSIVE StripLeadingSlashes(_)
StripLeadingSlashes(s) ==
  IF StartsWith(s, "/") THEN StripLeadingSlashes(Slice(s, 1)) ELSE s

\* first index of a character of `stops` in s, or Len(s) + 1
FirstStop(s, stops) ==
  IF \E i \in 1..Len(s) : CharAt(s, i) \in stops
  THEN CHOOSE i \in 1..Len(s) :
         /\ CharAt(s, i) \in stops
         /\ \A j \in 1..(i - 1) : CharAt(s, j) \notin stops
  ELSE Len(s) + 1

(***************************************************************************)
(* new URL(...): the WHATWG parser on the inputs of the model, which have  *)
(* a scheme http or https (or none), no port, no credentials, no dot       *)
(* segments and no character that the parser percent-encodes.              *)
(***************************************************************************)
ParseURL(s) ==
  LET colon  == FirstStop(s, {":"})
      scheme == SubSeq(s, 1, colon - 1)
      rest   == StripLeadingSlashes(Slice(s, colon))   \* special scheme: slashes are skipped
      hostEnd == FirstStop(rest, {"/", "?", "#"})
      host   == SubSeq(rest, 1, hostEnd - 1)
      after  == Slice(rest, hostEnd - 1)
      path   == SubSeq(after, 1, FirstStop(after, {"?", "#"}) - 1)
  IN IF colon > Len(s) \/ scheme \notin {"http", "https"} THEN [ok |-> FALSE, pathname |-> ""]
     ELSE IF host = "" \/ Includes(host, " ") THEN [ok |-> FALSE, pathname |-> ""]
     ELSE [ok |-> TRUE, pathname |-> IF path = "" THEN "/" ELSE path]

\* url.startsWith("http") ? url : `https://${url}`
WithScheme(url) == IF StartsWith(url, "http") THEN url ELSE "https://" \o url

\* parsed.pathname.split("/").filter(Boolean)
Segments(pathname) == FilterNonEmpty(Split(pathname, "/"))

(***************************************************************************)
(* Reference resolution (github.ts 36-127)                                 *)
(***************************************************************************)
\* segments.slice(2)
PathSegments(segments) == SubSeq(segments, 3, Len(segments))

\* pathBranch after lines 55-74
PathBranchOf(pathSegments) ==
  IF Len(pathSegments) >= 2 /\ pathSegments[1] = "tree" THEN pathSegments[2]
  ELSE IF Len(pathSegments) >= 3 /\ pathSegments[1] = "blob" THEN pathSegments[2]
  ELSE Undefined

\* pathTargetFile after lines 55-74
PathTargetFileOf(pathSegments) ==
  IF Len(pathSegments) >= 3 /\ pathSegments[1] = "blob"
  THEN LET filePath == Join(SubSeq(pathSegments, 3, Len(pathSegments)), "/")
       IN IF filePath # "" THEN filePath ELSE Undefined
  ELSE Undefined

\* remainingPath.endsWith("/") ? remainingPath : `${remainingPath}/`
WithTrailingSlash(p) == IF EndsWith(p, "/") THEN p ELSE p \o "/"

\* variant: the /tree scope keeps the branch segment (slice(1) for slice(2))
PathTargetDirsWithBranch(pathSegments) ==
  IF Len(pathSegments) >= 2 /\ pathSegments[1] = "tree"
  THEN <<WithTrailingSlash(Join(SubSeq(pathSegments, 2, Len(pathSegments)), "/"))>>
  ELSE IF Len(pathSegments) >= 3 /\ pathSegments[1] = "blob" THEN <<>>
  ELSE IF Len(pathSegments) > 0 THEN <<WithTrailingSlash(Join(pathSegments, "/"))>>
  ELSE <<>>

\* pathTargetDirs after the /tree branch (59-66) and the shorthand fallback (77-82)
PathTargetDirsOf(pathSegments) ==
  LET treeDirs ==
        IF Len(pathSegments) >= 2 /\ pathSegments[1] = "tree"
        THEN LET remainingPath == Join(SubSeq(pathSegments, 3, Len(pathSegments)), "/")
             IN IF remainingPath # "" THEN <<WithTrailingSlash(remainingPath)>> ELSE <<>>
        ELSE <<>>
  IN IF /\ ~Truthy(PathBranchOf(pathSegments))
        /\ ~Truthy(PathTargetFileOf(pathSegments))
        /\ Len(treeDirs) = 0
        /\ Len(pathSegments) > 0
     THEN LET scopePath == Join(pathSegments, "/")
          IN IF scopePath # "" THEN <<WithTrailingSlash(scopePath)>> ELSE <<>>
     ELSE treeDirs

\* dir?.split(",").map(trim).filter(d => d); undefined and [] both fail the
\* test `queryDirs && queryDirs.length > 0` and are the empty sequence here
QueryDirsOf(dir) ==
  IF dir = Undefined THEN <<>>
  ELSE LET parts == Split(dir, ",")
       IN FilterNonEmpty([i \in 1..Len(parts) |-> Trim(parts[i])])

\* ext?.split(",").map(e => e.trim().toLowerCase()).filter(e => e), then `|| []`
TargetExtsOf(ext) ==
  IF ext = Undefined THEN <<>>
  ELSE LET parts == Split(ext, ",")
       IN FilterNonEmpty([i \in 1..Len(parts) |-> ToLowerCase(Trim(parts[i]))])

\* variant: the path-embedded branch wins over the query
ResolveBranchPathFirst(paramBranch, pathBr) ==
  IF Truthy(pathBr) THEN pathBr
  ELSE IF Truthy(paramBranch) THEN paramBranch
  ELSE "main"

\* let branch = paramBranch || pathBranch || "main"
ResolveBranch(paramBranch, pathBr) ==
  IF Truthy(paramBranch) THEN paramBranch
  ELSE IF Truthy(pathBr) THEN pathBr
  ELSE "main"

\* const baseDir = pathTargetDirs[0] || ""
BaseDirOf(pathDirs) == IF Len(pathDirs) > 0 THEN pathDirs[1] ELSE ""

\* variant: the base directory is prepended without the startsWith test
normalizeDirAlwaysPrefix(baseDir, d) ==
  LET trimmed   == StripLeadingSlashes(d)
      withSlash == IF EndsWith(trimmed, "/") THEN trimmed ELSE trimmed \o "/"
  IN baseDir \o withSlash

normalizeDir(baseDir, d) ==
  LET trimmed   == StripLeadingSlashes(d)
      withSlash == IF EndsWith(trimmed, "/") THEN trimmed ELSE trimmed \o "/"
  IN IF baseDir = "" THEN withSlash
     ELSE IF StartsWith(withSlash, baseDir) THEN withSlash
     ELSE baseDir \o withSlash

\* finalTargetDirs (108-113)
FinalTargetDirsOf(queryDirs, pathDirs) ==
  IF Len(queryDirs) > 0
  THEN [i \in 1..Len(queryDirs) |-> normalizeDir(BaseDirOf(pathDirs), queryDirs[i])]
  ELSE IF Len(pathDirs) > 0 THEN pathDirs
  ELSE <<>>

\* variant: the path-embedded /blob/ target wins over the query
ResolveTargetFilePathFirst(queryFile, baseDir, pathFile) ==
  IF Truthy(pathFile) THEN pathFile
  ELSE IF Truthy(queryFile)
  THEN LET normalized == IF StartsWith(queryFile, "/") THEN Slice(queryFile, 1) ELSE queryFile
       IN IF baseDir # "" /\ ~StartsWith(normalized, baseDir)
          THEN baseDir \o normalized
          ELSE normalized
  ELSE pathFile

\* targetFile (117-127)
ResolveTargetFile(queryFile, baseDir, pathFile) ==
  IF Truthy(queryFile)
  THEN LET normalized == IF StartsWith(queryFile, "/") THEN Slice(queryFile, 1) ELSE queryFile
       IN IF baseDir # "" /\ ~StartsWith(normalized, baseDir)
          THEN baseDir \o normalized
          ELSE normalized
  ELSE pathFile

\* variant: only the owner segment is required
TooFewSegmentsOffByOne(segments) == Len(segments) < 1

\* segments.length < 2
TooFewSegments(segments) == Len(segments) < 2

(***************************************************************************)
(* Errors.  `site` records the throw statement; the program itself only    *)
(* sees the class (GitHubFetchError or Error), status and message.         *)
(***************************************************************************)
RECURSIVE NatToStr(_)
NatToStr(n) ==
  IF n < 10 THEN CharAt("0123456789", n + 1)
  ELSE NatToStr(n \div 10) \o CharAt("0123456789", (n % 10) + 1)

\* new GitHubFetchError(status, statusText), github.ts 4-10
GitHubFetchError(status, statusText) ==
  [class |-> "GitHubFetchError", site |-> "fetch", status |-> status, statusText |-> statusText,
   message |-> "Failed to fetch repository: " \o NatToStr(status) \o " " \o statusText]

PlainError(site, message) ==
  [class |-> "Error", site |-> site, status |-> 0, statusText |-> "", message |-> message]

\* the message of the TypeError thrown by new URL
UrlTypeErrorMessage == "Invalid URL"

NoOutcome == [kind |-> "none"]

Rejected(err) == [kind |-> "error", error |-> err]

(***************************************************************************)
(* File contents.  A content is a sequence of runs [ch, n]: n copies of    *)
(* one character, named by its class; the truncation marker is a literal   *)
(* run [lit].  Sizes of tens of KiB are then computed, not enumerated.     *)
(***************************************************************************)
\* charCodeAt of a character class
CharCode(ch) ==
  CASE ch = "x"   -> 120      \* printable ASCII
    [] ch = "TAB" -> 9
    [] ch = "NUL" -> 0
    [] ch = "ESC" -> 27
    [] ch = "JA"  -> 12354    \* a BMP character of three UTF-8 bytes

\* bytes TextEncoder writes for one UTF-16 unit of the class
Utf8Width(ch) ==
  IF CharCode(ch) < 128 THEN 1 ELSE IF CharCode(ch) < 2048 THEN 2 ELSE 3

RECURSIVE ContentLength(_)
ContentLength(c) == IF Len(c) = 0 THEN 0 ELSE c[1].n + ContentLength(Tail(c))

\* new TextEncoder().encode(content).length
RECURSIVE Utf8Size(_)
Utf8Size(c) ==
  IF Len(c) = 0 THEN 0 ELSE c[1].n * Utf8Width(c[1].ch) + Utf8Size(Tail(c))

\* content.substring(0, k)
RECURSIVE Substring0(_, _)
Substring0(c, k) ==
  IF Len(c) = 0 \/ k <= 0 THEN <<>>
  ELSE IF c[1].n <= k THEN <<c[1]>> \o Substring0(Tail(c), k - c[1].n)
  ELSE <<[ch |-> c[1].ch, n |-> k]>>

IsNonPrintable(ch) ==
  CharCode(ch) = 0 \/ (CharCode(ch) < 32 /\ CharCode(ch) \notin {9, 10, 13})

RECURSIVE CountNonPrintable(_)
CountNonPrintable(c) ==
  IF Len(c) = 0 THEN 0
  ELSE (IF IsNonPrintable(c[1].ch) THEN c[1].n ELSE 0) + CountNonPrintable(Tail(c))

\* nonPrintable / sampleSize > 0.05 over the first min(length, 1000) characters;
\* 0 / 0 is NaN, which is not > 0.05
isBinaryContent(content) ==
  LET sampleSize   == IF ContentLength(content) < 1000 THEN ContentLength(content) ELSE 1000
      nonPrintable == CountNonPrintable(Substring0(content, sampleSize))
  IN sampleSize > 0 /\ nonPrintable * 100 > 5 * sampleSize

MAX_DISPLAY_FILE_SIZE == 30 * 1024

MAX_FILE_SIZE == 500 * 1024

imageExtensions == {".png", ".jpg", ".jpeg", ".gif", ".bmp", ".ico", ".webp", ".svg"}

binaryExtensions ==
  {".zip", ".tar", ".gz", ".rar", ".7z", ".exe", ".dll", ".so", ".dylib", ".pdf", ".doc",
   ".docx", ".xls", ".xlsx", ".ppt", ".pptx", ".mp3", ".mp4", ".avi", ".mov", ".wav",
   ".bin", ".dat", ".db", ".sqlite"}

\* s.split(".").pop() || ""
LastDotPart(s) == LET parts == Split(s, ".") IN parts[Len(parts)]

\* variant: only the .lock suffix counts
IsLockFileSuffixOnly(filename) == EndsWith(filename, ".lock")

\* filename.match(/-lock\.|\.lock$/)
IsLockFile(filename) == Includes(filename, "-lock.") \/ EndsWith(filename, ".lock")

shouldSkipFile(filename, size, content, hasTs) ==
  LET ext == LastDotPart(ToLowerCase(filename))
  IN \/ IsLockFile(filename)
     \/ ("." \o ext) \in imageExtensions \/ ("." \o ext) \in binaryExtensions
     \/ (hasTs /\ (EndsWith(filename, ".js") \/ EndsWith(filename, ".mjs")))
     \/ size > MAX_FILE_SIZE
     \/ (Len(content) > 0 /\ isBinaryContent(content))

shouldIncludeFile(filename, targetDirs, exts) ==
  /\ Len(targetDirs) > 0 =>
       \E i \in 1..Len(targetDirs) : StartsWith(filename, WithTrailingSlash(targetDirs[i]))
  /\ Len(exts) > 0 =>
       \E i \in 1..Len(exts) : exts[i] = ToLowerCase(LastDotPart(filename))

\* /readme\.md$/i.test(fileRelative)
IsReadme(path) == EndsWith(ToLowerCase(path), "readme.md")

\* x.toFixed(2) for x = bytes / 1024: hundredths, rounded half up
ToFixed2Of1024(bytes) ==
  LET h == (bytes * 100 + 512) \div 1024
      frac == h % 100
  IN NatToStr(h \div 100) \o "." \o (IF frac < 10 THEN "0" ELSE "") \o NatToStr(frac)

TruncationMarker(size) ==
  "\n\nThis file is too large, truncated at 30KB. There is "
    \o ToFixed2Of1024(size - MAX_DISPLAY_FILE_SIZE) \o "KB remaining."

\* variant: a file of exactly 30 KiB is cut as well
StoredEntryInclusive(path, content, size) ==
  IF size >= MAX_DISPLAY_FILE_SIZE
  THEN [path |-> path, size |-> size, isTruncated |-> TRUE,
        content |-> Substring0(content, MAX_DISPLAY_FILE_SIZE) \o <<[lit |-> TruncationMarker(size)]>>]
  ELSE [path |-> path, size |-> size, isTruncated |-> FALSE, content |-> content]

\* the entry stored by fileTree.set at 205-209, from content and size (190-200)
StoredEntry(path, content, size) ==
  IF size > MAX_DISPLAY_FILE_SIZE
  THEN [path |-> path, size |-> size, isTruncated |-> TRUE,
        content |-> Substring0(content, MAX_DISPLAY_FILE_SIZE) \o <<[lit |-> TruncationMarker(size)]>>]
  ELSE [path |-> path, size |-> size, isTruncated |-> FALSE, content |-> content]

\* variant: the display size of a truncated file is not capped
DisplaySizeUncapped(size) == size

\* displaySize (192-199)
DisplaySize(size) == IF size > MAX_DISPLAY_FILE_SIZE THEN MAX_DISPLAY_FILE_SIZE ELSE size

\* fileTree.set(fileRelative, { size: 0, content: "" })
Placeholder(path) == [path |-> path, size |-> 0, isTruncated |-> FALSE, content |-> <<>>]

\* Map.prototype.set: replaces the value of an existing key in place, else appends
MapSet(tree, entry) ==
  IF \E i \in 1..Len(tree) : tree[i].path = entry.path
  THEN [i \in 1..Len(tree) |-> IF tree[i].path = entry.path THEN entry ELSE tree[i]]
  ELSE Append(tree, entry)

MapHas(tree, path) == \E i \in 1..Len(tree) : tree[i].path = path

MapGet(tree, path) == tree[CHOOSE i \in 1..Len(tree) : tree[i].path = path]

(***************************************************************************)
(* Rendering (github.ts 213-293).  A text is a sequence of pieces: [str]   *)
(* for literal text and [body] for a file's content.  The emoji of the     *)
(* source are written <file> and <dir>, the arrow ->, the fence <fence>.    *)
(***************************************************************************)
\* UTF-16 code unit order of the characters that occur in paths
CodeOrder == " -./0123456789ABCDEFGHIJKLMNOPQRSTUVWXYZ_abcdefghijklmnopqrstuvwxyz"

Rank(c) == CHOOSE i \in 1..Len(CodeOrder) : CharAt(CodeOrder, i) = c

\* a < b as Array.prototype.sort() compares strings
RECURSIVE StrLess(_, _)
StrLess(a, b) ==
  IF b = "" THEN FALSE
  ELSE IF a = "" THEN TRUE
  ELSE IF CharAt(a, 1) = CharAt(b, 1) THEN StrLess(Slice(a, 1), Slice(b, 1))
  ELSE Rank(CharAt(a, 1)) < Rank(CharAt(b, 1))

RECURSIVE SortStrings(_)
SortStrings(S) ==
  IF S = {} THEN <<>>
  ELSE LET m == CHOOSE x \in S : \A y \in S \ {x} : StrLess(x, y)
       IN <<m>> \o SortStrings(S \ {m})

\* every parts.slice(0, i).join("/") of every stored path
TreeDirs(tree) ==
  UNION { LET parts == Split(tree[k].path, "/")
          IN { Join(SubSeq(parts, 1, i), "/") : i \in 1..Len(parts) } : k \in 1..Len(tree) }

RECURSIVE Repeat(_, _)
Repeat(s, n) == IF n <= 0 THEN "" ELSE s \o Repeat(s, n - 1)

\* variant: the leaf of a truncated file shows its display size
TreeLineDisplaySize(tree, dirs, dir, showSize) ==
  LET parts  == Split(dir, "/")
      indent == Repeat("  ", Len(parts) - 1)
      name   == parts[Len(parts)]
      isFile == ~\E d \in dirs : StartsWith(d, dir \o "/")
  IN IF showSize /\ isFile
     THEN IF MapHas(tree, dir)
          THEN LET fileInfo == MapGet(tree, dir)
                   sizeKB   == ToFixed2Of1024(DisplaySize(fileInfo.size))
               IN IF fileInfo.isTruncated
                  THEN indent \o "<file> " \o name \o " (" \o sizeKB \o " KB->30KB truncated)\n"
                  ELSE indent \o "<file> " \o name \o " (" \o sizeKB \o " KB)\n"
          ELSE indent \o "<file> " \o name \o " (0.00 KB)\n"
     ELSE indent \o (IF isFile THEN "<file>" ELSE "<dir>") \o " " \o name \o "\n"

\* one line of createTreeDisplay (276-290)
TreeLine(tree, dirs, dir, showSize) ==
  LET parts  == Split(dir, "/")
      indent == Repeat("  ", Len(parts) - 1)
      name   == parts[Len(parts)]
      isFile == ~\E d \in dirs : StartsWith(d, dir \o "/")
  IN IF showSize /\ isFile
     THEN IF MapHas(tree, dir)
          THEN LET fileInfo == MapGet(tree, dir)
                   sizeKB   == ToFixed2Of1024(fileInfo.size)
               IN IF fileInfo.isTruncated
                  THEN indent \o "<file> " \o name \o " (" \o sizeKB \o " KB->30KB truncated)\n"
                  ELSE indent \o "<file> " \o name \o " (" \o sizeKB \o " KB)\n"
          ELSE indent \o "<file> " \o name \o " (0.00 KB)\n"
     ELSE indent \o (IF isFile THEN "<file>" ELSE "<dir>") \o " " \o name \o "\n"

createTreeDisplay(tree, showSize) ==
  LET dirs       == TreeDirs(tree)
      sortedDirs == SortStrings(dirs)
  IN [i \in 1..Len(sortedDirs) |-> [str |-> TreeLine(tree, dirs, sortedDirs[i], showSize)]]

\* readmeFiles (227-229), in Map order
ReadmeFiles(tree) == SelectSeq(tree, LAMBDA e : IsReadme(e.path) /\ Len(e.content) > 0)

RECURSIVE ReadmeSections(_)
ReadmeSections(files) ==
  IF Len(files) = 0 THEN <<>>
  ELSE <<[str |-> "## " \o files[1].path \o "\n\n"], [body |-> files[1].content], [str |-> "\n\n"]>>
         \o ReadmeSections(Tail(files))

RECURSIVE FileBlocks(_)
FileBlocks(tree) ==
  IF Len(tree) = 0 THEN <<>>
  ELSE <<[str |-> "<fence>" \o tree[1].path \o "\n"], [body |-> tree[1].content], [str |-> "\n<fence>\n\n"]>>
         \o FileBlocks(Tail(tree))

RenderTree(tree) ==
  <<[str |-> "# Directory Structure\n\n"]>> \o createTreeDisplay(tree, FALSE)
    \o (IF Len(ReadmeFiles(tree)) > 0
        THEN <<[str |-> "\n# README Files\n\n"]>> \o ReadmeSections(ReadmeFiles(tree))
        ELSE <<>>)

RenderFull(tree, origTotal, dispTotal) ==
  <<[str |-> "# File Tree\n\n"]>> \o createTreeDisplay(tree, TRUE)
    \o <<[str |-> "\n# Files (Total: " \o ToFixed2Of1024(origTotal) \o " KB->"
                    \o ToFixed2Of1024(dispTotal) \o " KB)\n\n"]>>
    \o FileBlocks(tree)

Resolved(text) == [kind |-> "text", text |-> text]

(***************************************************************************)
(* The browser collaborator (app.ts 233-257, 283-293)                      *)
(***************************************************************************)
mapGitHubErrorToStatus(error) ==
  IF error.class = "GitHubFetchError"
  THEN IF error.status = 401 \/ error.status = 403 THEN 403
       ELSE IF error.status = 404 THEN 404
       ELSE 500
  ELSE LET normalized == ToLowerCase(error.message)
       IN IF \/ Includes(normalized, "invalid url")
             \/ Includes(normalized, "invalid github repository url format")
             \/ Includes(normalized, "arguments are required")
             \/ Includes(normalized, "url parameter is required")
             \/ Includes(normalized, "url must be a non-empty string")
          THEN 400
          ELSE IF Includes(normalized, "file not found") THEN 404
          ELSE 500

(***************************************************************************)
(* The environment: codeload's responses and the archive it serves         *)
(***************************************************************************)
StatusText(status) ==
  CASE status = 200 -> "OK"
    [] status = 401 -> "Unauthorized"
    [] status = 403 -> "Forbidden"
    [] status = 404 -> "Not Found"
    [] status = 500 -> "Internal Server Error"

\* the Response of the k-th call of fetchZip, made for branch b (Response.ok: 200-299)
ResponseTo(k, b) ==
  [ok |-> upstream[k] \in 200..299, status |-> upstream[k],
   statusText |-> StatusText(upstream[k]), branch |-> b]

\* the archive codeload serves for a branch: every member of the repository
\* under `{repo}-{branch}/`, in the archive's order; a stray member keeps its name
ServedArchive(r, b, files) ==
  [i \in 1..Len(files) |->
     [name    |-> IF files[i].stray THEN files[i].rel ELSE r \o "-" \o b \o "/" \o files[i].rel,
      dir     |-> files[i].dir,
      content |-> files[i].content]]

Text(n) == <<[ch |-> "x", n |-> n]>>

File(rel, content) == [rel |-> rel, dir |-> FALSE, stray |-> FALSE, content |-> content]

(***************************************************************************)
(* processGitHubRepository, step by step                                   *)
(***************************************************************************)
\* variant: the fallback names in the other order
defaultBranchesSwapped == <<"master", "main">>

defaultBranches == <<"main", "master">>

\* if (branch === defaultBranch) continue
SkipsFallback(br, defaultBranch) == br = defaultBranch

\* variant: zipResp is overwritten by every fallback response
ZipRespAlwaysTemp(resp, tempResp) == tempResp

\* zipResp after one iteration that fetched tempResp (139-144)
ZipRespAfter(resp, tempResp) == IF tempResp.ok THEN tempResp ELSE resp

\* variant: the error carries the response of the last request issued
ExhaustedErrorLast ==
  GitHubFetchError(requests[Len(requests)].resp.status, requests[Len(requests)].resp.statusText)

\* throw new GitHubFetchError(zipResp.status, zipResp.statusText)
ExhaustedError == GitHubFetchError(zipResp.status, zipResp.statusText)

\* variant: the prefix is built from the branch that was requested first
RootPrefixOfRequested(r, br) == r \o "-" \o requests[1].branch \o "/"

\* const rootPrefix = `${repo}-${branch}/`
RootPrefixOf(r, br) == r \o "-" \o br \o "/"

\* variant: a tsconfig.json outside the root prefix counts as well
HasTsConfigAnywhere(members, prefix) ==
  \E i \in 1..Len(members) : EndsWith(members[i].name, "tsconfig.json")

\* Object.keys(jszip.files).some(...)
HasTsConfigOf(members, prefix) ==
  \E i \in 1..Len(members) :
    StartsWith(members[i].name, prefix) /\ EndsWith(members[i].name, "tsconfig.json")

\* the selection rule of 172-176, on the relative path
Selected(fileRelative) ==
  IF Truthy(targetFile) THEN fileRelative = targetFile
  ELSE shouldIncludeFile(fileRelative, finalTargetDirs, targetExts)

\* lines 38-127
Resolve ==
  /\ pc = "start"
  /\ LET parsed       == ParseURL(WithScheme(params.url))
         segments     == Segments(parsed.pathname)
         pathSegments == PathSegments(segments)
         pathDirs     == PathTargetDirsOf(pathSegments)
     IN IF ~parsed.ok
        THEN /\ outcome' = Rejected(PlainError("invalid-url", "Invalid URL: " \o UrlTypeErrorMessage))
             /\ pc' = "done"
             /\ UNCHANGED <<owner, repo, pathBranch, pathTargetDirs, pathTargetFile,
                            finalTargetDirs, targetExts, targetFile, isTreeMode, branch>>
        ELSE IF TooFewSegments(segments)
        THEN /\ outcome' = Rejected(PlainError("invalid-format", "Invalid GitHub repository URL format"))
             /\ pc' = "done"
             /\ UNCHANGED <<owner, repo, pathBranch, pathTargetDirs, pathTargetFile,
                            finalTargetDirs, targetExts, targetFile, isTreeMode, branch>>
        ELSE /\ owner' = At(segments, 0)
             /\ repo' = At(segments, 1)
             /\ pathBranch' = PathBranchOf(pathSegments)
             /\ pathTargetDirs' = pathDirs
             /\ pathTargetFile' = PathTargetFileOf(pathSegments)
             /\ isTreeMode' = (params.mode = "tree")
             /\ branch' = ResolveBranch(params.branch, PathBranchOf(pathSegments))
             /\ finalTargetDirs' = FinalTargetDirsOf(QueryDirsOf(params.dir), pathDirs)
             /\ targetExts' = TargetExtsOf(params.ext)
             /\ targetFile' = ResolveTargetFile(params.file, BaseDirOf(pathDirs),
                                                PathTargetFileOf(pathSegments))
             /\ pc' = "fetch"
             /\ UNCHANGED outcome
  /\ UNCHANGED <<params, upstream, repoFiles, requests, zipResp, fbIndex, jszip, rootPrefix,
                 hasTsConfig, scanIndex, fileTree, originalTotalSize, displayTotalSize,
                 reads, httpStatus>>

\* lines 130-131
FetchPrimary ==
  /\ pc = "fetch"
  /\ LET resp == ResponseTo(Len(requests) + 1, branch)
     IN /\ requests' = Append(requests, [branch |-> branch, resp |-> resp])
        /\ zipResp' = resp
        /\ IF resp.ok THEN pc' = "load" /\ UNCHANGED fbIndex
                      ELSE pc' = "fallback" /\ fbIndex' = 1
  /\ UNCHANGED <<params, upstream, repoFiles, owner, repo, pathBranch, pathTargetDirs,
                 pathTargetFile, finalTargetDirs, targetExts, targetFile, isTreeMode, branch,
                 jszip, rootPrefix, hasTsConfig, scanIndex, fileTree, originalTotalSize,
                 displayTotalSize, reads, outcome, httpStatus>>

\* one iteration of the for-loop of 135-145
FallbackStep ==
  /\ pc = "fallback"
  /\ fbIndex <= Len(defaultBranches)
  /\ LET defaultBranch == defaultBranches[fbIndex]
         tempResp      == ResponseTo(Len(requests) + 1, defaultBranch)
     IN IF SkipsFallback(branch, defaultBranch)
        THEN /\ fbIndex' = fbIndex + 1
             /\ UNCHANGED <<requests, zipResp, branch, pc>>
        ELSE /\ requests' = Append(requests, [branch |-> defaultBranch, resp |-> tempResp])
             /\ zipResp' = ZipRespAfter(zipResp, tempResp)
             /\ IF tempResp.ok
                THEN branch' = defaultBranch /\ pc' = "load" /\ UNCHANGED fbIndex
                ELSE fbIndex' = fbIndex + 1 /\ UNCHANGED <<branch, pc>>
  /\ UNCHANGED <<params, upstream, repoFiles, owner, repo, pathBranch, pathTargetDirs,
                 pathTargetFile, finalTargetDirs, targetExts, targetFile, isTreeMode,
                 jszip, rootPrefix, hasTsConfig, scanIndex, fileTree, originalTotalSize,
                 displayTotalSize, reads, outcome, httpStatus>>

\* lines 147-149: the loop ended with foundBranch false
FallbackExhausted ==
  /\ pc = "fallback"
  /\ fbIndex > Len(defaultBranches)
  /\ outcome' = Rejected(ExhaustedError)
  /\ pc' = "done"
  /\ UNCHANGED <<params, upstream, repoFiles, owner, repo, pathBranch, pathTargetDirs,
                 pathTargetFile, finalTargetDirs, targetExts, targetFile, isTreeMode, branch,
                 requests, zipResp, fbIndex, jszip, rootPrefix, hasTsConfig, scanIndex,
                 fileTree, originalTotalSize, displayTotalSize, reads, httpStatus>>

\* lines 152-163; JSZip.loadAsync rejects when the body is no zip archive
LoadArchive ==
  /\ pc = "load"
  /\ IF ~repoFiles.zip
     THEN /\ outcome' = Rejected(PlainError("zip",
                          "Can't find end of central directory : is this a zip file ?"))
          /\ pc' = "done"
          /\ UNCHANGED <<jszip, rootPrefix, hasTsConfig, scanIndex>>
     ELSE /\ jszip' = ServedArchive(repo, zipResp.branch, repoFiles.members)
          /\ rootPrefix' = RootPrefixOf(repo, branch)
          /\ hasTsConfig' = HasTsConfigOf(jszip', rootPrefix')
          /\ scanIndex' = 1
          /\ pc' = "scan"
          /\ UNCHANGED outcome
  /\ UNCHANGED <<params, upstream, repoFiles, owner, repo, pathBranch, pathTargetDirs,
                 pathTargetFile, finalTargetDirs, targetExts, targetFile, isTreeMode, branch,
                 requests, zipResp, fbIndex, fileTree, originalTotalSize, displayTotalSize,
                 reads, httpStatus>>

\* variant: no placeholders, TREE mode reads like FULL mode
PlaceholderNever(treeMode, fileRelative) == FALSE

\* TREE mode stores every selected non-README without reading it:
\* if (isTreeMode && !isReadmeFile), lines 177-181
UsesPlaceholder(treeMode, fileRelative) == treeMode /\ ~IsReadme(fileRelative)

\* one iteration of the for-loop of 165-211
ScanEntry ==
  /\ pc = "scan"
  /\ scanIndex <= Len(jszip)
  /\ scanIndex' = scanIndex + 1
  /\ LET fileObj      == jszip[scanIndex]
         fileRelative == Slice(fileObj.name, Len(rootPrefix))
         content      == fileObj.content
         size         == Utf8Size(content)
     IN IF fileObj.dir \/ ~StartsWith(fileObj.name, rootPrefix) \/ ~Selected(fileRelative)
        THEN UNCHANGED <<fileTree, originalTotalSize, displayTotalSize, reads>>
        ELSE IF UsesPlaceholder(isTreeMode, fileRelative)
        THEN /\ fileTree' = MapSet(fileTree, Placeholder(fileRelative))
             /\ UNCHANGED <<originalTotalSize, displayTotalSize, reads>>
        ELSE /\ reads' = Append(reads, fileObj.name)
             /\ IF shouldSkipFile(fileRelative, size, content, hasTsConfig)
                THEN UNCHANGED <<fileTree, originalTotalSize, displayTotalSize>>
                ELSE /\ originalTotalSize' = originalTotalSize + size
                     /\ displayTotalSize' = displayTotalSize + DisplaySize(size)
                     /\ fileTree' = MapSet(fileTree, StoredEntry(fileRelative, content, size))
  /\ UNCHANGED <<pc, params, upstream, repoFiles, owner, repo, pathBranch, pathTargetDirs,
                 pathTargetFile, finalTargetDirs, targetExts, targetFile, isTreeMode, branch,
                 requests, zipResp, fbIndex, jszip, rootPrefix, hasTsConfig, outcome,
                 httpStatus>>

\* lines 213-249
Render ==
  /\ pc = "scan"
  /\ scanIndex > Len(jszip)
  /\ pc' = "done"
  /\ outcome' =
       IF Truthy(targetFile)
       THEN IF ~MapHas(fileTree, targetFile)
            THEN Rejected(PlainError("file-not-found", "File not found: " \o targetFile))
            ELSE Resolved(<<[body |-> MapGet(fileTree, targetFile).content]>>)
       ELSE IF isTreeMode THEN Resolved(RenderTree(fileTree))
       ELSE Resolved(RenderFull(fileTree, originalTotalSize, displayTotalSize))
  /\ UNCHANGED <<params, upstream, repoFiles, owner, repo, pathBranch, pathTargetDirs,
                 pathTargetFile, finalTargetDirs, targetExts, targetFile, isTreeMode, branch,
                 requests, zipResp, fbIndex, jszip, rootPrefix, hasTsConfig, scanIndex,
                 fileTree, originalTotalSize, displayTotalSize, reads, httpStatus>>

\* app.ts 283-293: the handler answers 200 with the text, or the mapped status
WebRespond ==
  /\ pc = "done"
  /\ pc' = "responded"
  /\ httpStatus' = IF outcome.kind = "text" THEN 200
                   ELSE mapGitHubErrorToStatus(outcome.error)
  /\ UNCHANGED <<params, upstream, repoFiles, owner, repo, pathBranch, pathTargetDirs,
                 pathTargetFile, finalTargetDirs, targetExts, targetFile, isTreeMode, branch,
                 requests, zipResp, fbIndex, jszip, rootPrefix, hasTsConfig, scanIndex,
                 fileTree, originalTotalSize, displayTotalSize, reads, outcome>>

Next ==
  \/ Resolve
  \/ FetchPrimary
  \/ FallbackStep
  \/ FallbackExhausted
  \/ LoadArchive
  \/ ScanEntry
  \/ Render
  \/ WebRespond

(***************************************************************************)
(* Initial states: a request and an environment.  Three families keep the  *)
(* product small: many requests against one repository, the fetch protocol *)
(* against every response pattern, and the scan against many archives.     *)
(***************************************************************************)
MaxDepth == 2      \* longest path below /tree/<b>/, /blob/<b>/ or the repository

MaxEntries == 2    \* most members of an archive in the scan family

Seg(i) == IF i % 2 = 1 THEN "src" ELSE "lib"

\* "src", "src/lib", "src/lib/src", ...
DirPath(n) == Join([i \in 1..n |-> Seg(i)], "/")

\* "a.ts", "src/a.ts", "src/lib/a.ts", ...
FilePath(n) == Join([i \in 1..n |-> IF i = n THEN "a.ts" ELSE Seg(i)], "/")

RepoUrl == "github.com/owner/repo"

ValidUrls ==
  {RepoUrl, "https://" \o RepoUrl \o "/", "http://" \o RepoUrl \o "?dir=x/y/z",
   RepoUrl \o "/tree", RepoUrl \o "/tree/dev", RepoUrl \o "/blob", RepoUrl \o "/blob/dev",
   RepoUrl \o "/tree/master/"}
  \cup {RepoUrl \o "/tree/dev/" \o DirPath(n) : n \in 1..MaxDepth}
  \cup {"https://" \o RepoUrl \o "/tree/main//" \o DirPath(n) \o "/" : n \in 1..MaxDepth}
  \cup {RepoUrl \o "/blob/dev/" \o FilePath(n) : n \in 1..MaxDepth}
  \cup {RepoUrl \o "/" \o DirPath(n) : n \in 1..MaxDepth}

InvalidUrls ==
  {"", "http", "https://", "/owner/repo", "bad host/owner/repo",
   "github.com", "github.com/owner", "https://github.com/owner/", "github.com//owner//",
   "github.com/owner?x=/a/b", "github.com/owner#/repo/tree"}

UndefinedParams ==
  [url |-> RepoUrl, dir |-> Undefined, ext |-> Undefined, branch |-> Undefined,
   file |-> Undefined, mode |-> Undefined]

SmallRepo ==
  [zip |-> TRUE,
   members |-> <<[rel |-> "", dir |-> TRUE, stray |-> FALSE, content |-> <<>>],
                 File("README.md", Text(12)),
                 File("src/a.ts", Text(7)),
                 File("src/lib/a.ts", Text(9))>>]

\* many requests, every response 200, one repository
ResolverFamily ==
  /\ \/ params \in [url    : ValidUrls \cup InvalidUrls,
                    dir    : {Undefined, "", " , ", "lib", "/src/lib/, //docs"},
                    ext    : {Undefined},
                    branch : {Undefined, "", "fix"},
                    file   : {Undefined, "", "/a.ts", "src/a.ts", "docs/Invalid URL.md"},
                    mode   : {Undefined}]
     \/ params \in [url    : {RepoUrl, RepoUrl \o "/tree/dev/src"},
                    dir    : {Undefined, "lib"},
                    ext    : {Undefined, "TS, md,"},
                    branch : {Undefined},
                    file   : {Undefined},
                    mode   : {Undefined, "tree", "full"}]
  /\ upstream = <<200, 200, 200>>
  /\ repoFiles = SmallRepo

\* the fetch protocol: every pattern of three responses; a 200 whose body is no archive
FetchFamily ==
  /\ \E u \in {RepoUrl, RepoUrl \o "/tree/dev"} :
     \E b \in {Undefined, "main", "master", "fix"} :
       params = [UndefinedParams EXCEPT !.url = u, !.branch = b]
  /\ \/ upstream \in [1..3 -> {200, 401, 403, 404, 500}] /\ repoFiles = SmallRepo
     \/ upstream = <<200, 200, 200>> /\ repoFiles = [zip |-> FALSE, members |-> <<>>]

Universe ==
  {File("src/a.ts", Text(7)),
   File("README.md", Text(12)),
   File("docs/readme.md", <<>>),
   File("pnpm-lock.yaml", Text(5)),
   File("src/logo.png", Text(5)),
   File("src/big.ts", Text(40 * 1024)),
   File("src/huge.ts", Text(600 * 1024)),
   File("src/bin.ts", <<[ch |-> "x", n |-> 10], [ch |-> "NUL", n |-> 1]>>),
   File("tsconfig.json", Text(2)),
   File("dist/bundle.js", Text(3)),
   [rel |-> "src/", dir |-> TRUE, stray |-> FALSE, content |-> <<>>],
   [rel |-> "other-main/src/a.ts", dir |-> FALSE, stray |-> TRUE, content |-> Text(4)]}

\* archives: sequences of at most MaxEntries distinct members (distinct names)
Archives ==
  UNION { {a \in [1..n -> Universe] : \A i, j \in 1..n : i # j => a[i].rel # a[j].rel}
          : n \in 0..MaxEntries }

\* the scan: a few requests against every archive
ScanFamily ==
  /\ \E u \in {RepoUrl} :
     \E f \in {Undefined, "src/a.ts", "pnpm-lock.yaml", "src/big.ts", "README.md"} :
     \E m \in {Undefined, "tree"} :
       params = [UndefinedParams EXCEPT !.url = u, !.file = f, !.mode = m]
  /\ upstream = <<200, 200, 200>>
  /\ \E a \in Archives : repoFiles = [zip |-> TRUE, members |-> a]

Init ==
  /\ pc = "start"
  /\ ResolverFamily \/ FetchFamily \/ ScanFamily
  /\ owner = Undefined /\ repo = Undefined
  /\ pathBranch = Undefined /\ pathTargetDirs = <<>> /\ pathTargetFile = Undefined
  /\ finalTargetDirs = <<>> /\ targetExts = <<>> /\ targetFile = Undefined
  /\ isTreeMode = FALSE
  /\ branch = Undefined
  /\ requests = <<>>
  /\ zipResp = Undefined
  /\ fbIndex = 0
  /\ jszip = <<>> /\ rootPrefix = "" /\ hasTsConfig = FALSE
  /\ scanIndex = 0
  /\ fileTree = <<>> /\ originalTotalSize = 0 /\ displayTotalSize = 0
  /\ reads = <<>>
  /\ outcome = NoOutcome
  /\ httpStatus = 0

Spec == Init /\ [][Next]_vars

(***************************************************************************)
(* Properties                                                              *)
(***************************************************************************)
Settled == pc \in {"done", "responded"}

IsFetchError == outcome.kind = "error" /\ outcome.error.class = "GitHubFetchError"

RequestedBranches == [i \in 1..Len(requests) |-> requests[i].branch]

\* main, then master, without the name that was requested first
FallbackNamesFor(first) == SelectSeq(<<"main", "master">>, LAMBDA d : d # first)

\* C1: the fallback names are requested one at a time in the order main, master,
\* skipping the resolved branch and stopping at the first 2xx response: the
\* requests after the first are a prefix of that list, no request follows a
\* success, no name is requested twice, at most three requests are issued, none
\* after a first success, and the effective branch is the name that succeeded.
C1_FallbackOrder ==
  Len(requests) > 0 =>
    LET fallbacks == SubSeq(RequestedBranches, 2, Len(requests))
        expected  == FallbackNamesFor(requests[1].branch)
        last      == requests[Len(requests)]
    IN /\ Len(fallbacks) <= Len(expected)
       /\ fallbacks = SubSeq(expected, 1, Len(fallbacks))
       /\ \A i \in 1..(Len(requests) - 1) : ~requests[i].resp.ok
       /\ \A i, j \in 1..Len(requests) : i # j => requests[i].branch # requests[j].branch
       /\ Len(requests) <= 3
       /\ requests[1].resp.ok => Len(requests) = 1
       /\ last.resp.ok => branch = last.branch /\ zipResp = last.resp
       /\ pc \in {"load", "scan"} => last.resp.ok
       /\ IsFetchError => fallbacks = expected

\* feature branch fails, main succeeds, master would have succeeded too
C1_Witness ==
  /\ pc = "load"
  /\ Len(requests) = 2
  /\ requests[1].branch = "fix" /\ ~requests[1].resp.ok
  /\ branch = "main"
  /\ upstream[3] = 200

\* C2: when the first attempt and every fallback attempt return non-2xx, the run
\* fails with a GitHubFetchError whose status and statusText are those of the
\* first attempt, whatever the fallback attempts returned.
C2_OriginalStatus ==
  (Settled /\ Len(requests) > 0 /\ \A i \in 1..Len(requests) : ~requests[i].resp.ok) =>
    /\ IsFetchError
    /\ outcome.error.status = requests[1].resp.status
    /\ outcome.error.statusText = requests[1].resp.statusText
    /\ outcome.error.message =
         "Failed to fetch repository: " \o NatToStr(requests[1].resp.status)
           \o " " \o requests[1].resp.statusText

C2_Witness ==
  /\ Settled /\ IsFetchError
  /\ Len(requests) = 3
  /\ requests[1].resp.status = 404
  /\ requests[2].resp.status = 403
  /\ requests[3].resp.status = 500
  /\ outcome.error.status = 404

\* C3 as stated: the raised fetch error mirrors the response of the last request
\* that was issued.
C3_LastFailure ==
  IsFetchError =>
    /\ outcome.error.status = requests[Len(requests)].resp.status
    /\ outcome.error.statusText = requests[Len(requests)].resp.statusText

\* C3 amended: the raised fetch error mirrors the first upstream failure, the
\* response codeload gave to the primary attempt; every fallback had been tried
\* and had failed when it was raised.
C3_FirstFailure ==
  IsFetchError =>
    /\ outcome.error.status = upstream[1]
    /\ outcome.error.statusText = StatusText(upstream[1])
    /\ Len(requests) >= 2
    /\ \A i \in 1..Len(requests) : upstream[i] \notin 200..299

C3_Witness ==
  /\ IsFetchError
  /\ Len(requests) = 2
  /\ requests[1].branch = "main"
  /\ upstream[1] = 403 /\ upstream[2] = 404
  /\ outcome.error.status = 403

\* the URL the parser is given cannot be parsed, or its path has fewer than two
\* non-empty segments
UnusableUrl(url) ==
  LET parsed == ParseURL(WithScheme(url))
  IN ~parsed.ok \/ Len(SelectSeq(Split(parsed.pathname, "/"), LAMBDA x : x # "")) < 2

IsInvalidInput ==
  /\ outcome.kind = "error"
  /\ outcome.error.class = "Error"
  /\ \/ StartsWith(outcome.error.message, "Invalid URL: ")
     \/ outcome.error.message = "Invalid GitHub repository URL format"

\* C4: an input whose URL is unparseable or has fewer than two non-empty path
\* segments is rejected with an invalid-input error; no archive request is
\* issued, nothing is read and no text is returned.
C4_InvalidInput ==
  (pc # "start" /\ (UnusableUrl(params.url) \/ params.url \in InvalidUrls)) =>
    /\ Settled
    /\ IsInvalidInput
    /\ requests = <<>>
    /\ reads = <<>> /\ jszip = <<>> /\ fileTree = <<>>

C4_Witness ==
  /\ Settled
  /\ params.url = "https://github.com/owner/"
  /\ IsInvalidInput
  /\ requests = <<>>

\* the request passed resolution (lines 38-127 ran to the end)
WasResolved == pc # "start" /\ ~IsInvalidInput

\* the non-empty segments of the URL path: owner, repo, then the rest
UrlSegments ==
  SelectSeq(Split(ParseURL(WithScheme(params.url)).pathname, "/"), LAMBDA x : x # "")

\* <b> of /owner/repo/tree/<b>[/...] or /owner/repo/blob/<b>/<file>
EmbeddedBranch ==
  IF \/ (Len(UrlSegments) >= 4 /\ UrlSegments[3] = "tree")
     \/ (Len(UrlSegments) >= 5 /\ UrlSegments[3] = "blob")
  THEN UrlSegments[4]
  ELSE Undefined

\* <file> of /owner/repo/blob/<b>/<file>
EmbeddedFile ==
  IF Len(UrlSegments) >= 5 /\ UrlSegments[3] = "blob"
  THEN Join(SubSeq(UrlSegments, 5, Len(UrlSegments)), "/")
  ELSE Undefined

Given(v) == v # Undefined /\ v # ""

\* C5: the first archive request is for the query branch when one is given,
\* otherwise for the branch embedded in a /tree/<b> or /blob/<b>/<file> path,
\* otherwise for main; a path without tree/blob never implies a branch.
C5_BranchPrecedence ==
  WasResolved =>
    LET expected == IF Given(params.branch) THEN params.branch
                    ELSE IF EmbeddedBranch # Undefined THEN EmbeddedBranch
                    ELSE "main"
    IN /\ pc = "fetch" => branch = expected
       /\ Len(requests) > 0 => requests[1].branch = expected
       /\ (Len(UrlSegments) >= 3 /\ UrlSegments[3] \notin {"tree", "blob"}) =>
            /\ pathBranch = Undefined
            /\ expected = (IF Given(params.branch) THEN params.branch ELSE "main")

\* query branch fix over the embedded branch dev
C5_Witness ==
  /\ Len(requests) = 1
  /\ params.branch = "fix" /\ pathBranch = "dev"
  /\ requests[1].branch = "fix"

\* C6: for a path owner/repo/tree/<b>/<s1>/.../<sn>, n >= 1, and no query dir, the
\* directory scope is the single prefix "<s1>/.../<sn>/" ending in one slash, the
\* path-derived branch candidate is <b> and no path-derived file target is set;
\* a path-derived scope and a path-derived file target are never both set.
C6_TreePathScope ==
  WasResolved =>
    /\ (Len(UrlSegments) >= 5 /\ UrlSegments[3] = "tree" /\ params.dir = Undefined) =>
         /\ finalTargetDirs = <<Join(SubSeq(UrlSegments, 5, Len(UrlSegments)), "/") \o "/">>
         /\ ~EndsWith(finalTargetDirs[1], "//")
         /\ pathBranch = UrlSegments[4]
         /\ pathTargetFile = Undefined
         /\ ~Given(params.file) => targetFile = Undefined
         /\ ~Given(params.branch) => (Len(requests) > 0 => requests[1].branch = UrlSegments[4])
    /\ ~(Len(pathTargetDirs) > 0 /\ pathTargetFile # Undefined)

C6_Witness ==
  /\ pc = "fetch"
  /\ params.url = "https://github.com/owner/repo/tree/main//src/lib/"
  /\ params.dir = Undefined
  /\ finalTargetDirs = <<"src/lib/">>
  /\ pathBranch = "main"

\* C7: a query file is stripped of one leading slash and prefixed with the
\* path-embedded base directory unless it starts with it already; without a
\* query file the /blob/ target is used, else none.  A query file wins over a
\* /blob/ target.
C7_FileTarget ==
  WasResolved =>
    LET base     == IF Len(pathTargetDirs) > 0 THEN pathTargetDirs[1] ELSE ""
        stripped == IF StartsWith(params.file, "/")
                    THEN SubSeq(params.file, 2, Len(params.file)) ELSE params.file
    IN /\ IF Given(params.file)
          THEN IF base # "" /\ ~StartsWith(stripped, base)
               THEN targetFile = base \o stripped
               ELSE targetFile = stripped
          ELSE targetFile = EmbeddedFile
       /\ (Given(params.file) /\ EmbeddedFile # Undefined) => targetFile = stripped
       /\ (base = "src/" /\ params.file \in {"/a.ts", "src/a.ts"}) => targetFile = "src/a.ts"

\* base directory src/lib/ from the path, query file /a.ts
C7_Witness ==
  /\ pc = "fetch"
  /\ pathTargetDirs = <<"src/lib/">>
  /\ params.file = "/a.ts"
  /\ targetFile = "src/lib/a.ts"

\* the trimmed, non-empty entries of a comma-separated query value
QueryEntries(v) ==
  IF v = Undefined THEN <<>>
  ELSE SelectSeq([i \in 1..Len(Split(v, ",")) |-> Trim(Split(v, ",")[i])], LAMBDA x : x # "")

\* strip leading slashes, ensure a trailing slash, prepend the base unless present
ExpectedDir(base, entry) ==
  LET slashed == WithTrailingSlash(StripLeadingSlashes(entry))
  IN IF base # "" /\ ~StartsWith(slashed, base) THEN base \o slashed ELSE slashed

\* C8: with a non-empty query dir the scope is exactly the normalized query
\* entries; without one it is the path-embedded scope unmodified; every prefix
\* of the final scope ends with a slash.
C8_DirScope ==
  WasResolved =>
    LET entries == QueryEntries(params.dir)
        base    == IF Len(pathTargetDirs) > 0 THEN pathTargetDirs[1] ELSE ""
    IN /\ IF Len(entries) > 0
          THEN finalTargetDirs = [i \in 1..Len(entries) |-> ExpectedDir(base, entries[i])]
          ELSE finalTargetDirs = pathTargetDirs
       /\ \A i \in 1..Len(finalTargetDirs) : EndsWith(finalTargetDirs[i], "/")
       /\ (params.dir = "/src/lib/, //docs" /\ base = "src/") =>
            finalTargetDirs = <<"src/lib/", "src/docs/">>

\* the path scope src/ is replaced by the two normalized query entries
C8_Witness ==
  /\ pc = "fetch"
  /\ pathTargetDirs = <<"src/">>
  /\ params.dir = "/src/lib/, //docs"
  /\ finalTargetDirs = <<"src/lib/", "src/docs/">>

\* the scan ran to its end and the result was produced
WasRendered == Settled /\ scanIndex > Len(jszip) /\ scanIndex > 0

\* the archive has a file member `{root prefix}{targetFile}`
TargetPresent ==
  \E i \in 1..Len(jszip) : ~jszip[i].dir /\ jszip[i].name = rootPrefix \o targetFile

TargetMember ==
  jszip[CHOOSE i \in 1..Len(jszip) : ~jszip[i].dir /\ jszip[i].name = rootPrefix \o targetFile]

IsFileNotFound ==
  /\ outcome.kind = "error"
  /\ outcome.error.class = "Error"
  /\ outcome.error.message = "File not found: " \o targetFile

\* C9: with a single-file target set, in either display mode, the run returns
\* the target's content (cut at 30 KiB with the marker when it is larger) when
\* the target is in the archive under the root prefix and passes the exclusion
\* rules, fails with file-not-found otherwise, and returns no other text.
C9_SingleFile ==
  (WasRendered /\ Given(targetFile)) =>
    IF /\ TargetPresent
       /\ ~shouldSkipFile(targetFile, Utf8Size(TargetMember.content),
                          TargetMember.content, hasTsConfig)
    THEN outcome = Resolved(<<[body |-> StoredEntry(targetFile, TargetMember.content,
                                                    Utf8Size(TargetMember.content)).content]>>)
    ELSE IsFileNotFound

\* C10: the web handler answers a failed run by the kind of its failure: 403
\* for a fetch error with upstream 401 or 403, 404 for upstream 404, 500 for any
\* other upstream status; 400 for invalid input; 404 for file-not-found, for
\* every target path; 500 for anything else.
C10_StatusByKind ==
  (pc = "responded" /\ outcome.kind = "error") =>
    httpStatus =
      (IF outcome.error.site = "fetch"
       THEN (IF outcome.error.status \in {401, 403} THEN 403
             ELSE IF outcome.error.status = 404 THEN 404 ELSE 500)
       ELSE IF outcome.error.site \in {"invalid-url", "invalid-format"} THEN 400
       ELSE IF outcome.error.site = "file-not-found" THEN 404
       ELSE 500)

(***************************************************************************)
(* The scan in detail: archives chosen for sizes, for filters and for      *)
(* READMEs, and the fallback in front of a scan.                           *)
(***************************************************************************)
\* sequences of at most MaxEntries members of U with distinct names
ArchivesOver(U) ==
  UNION { {a \in [1..n -> U] : \A i, j \in 1..n : i # j => a[i].rel # a[j].rel}
          : n \in 0..MaxEntries }

\* files around the 30 KiB display limit, in ASCII and in three-byte characters
SizeUniverse ==
  {File("src/a.ts", Text(7)),
   File("src/edge.ts", Text(30 * 1024)),
   File("src/over.ts", Text(30 * 1024 + 1)),
   File("src/big.ts", Text(40 * 1024)),
   File("docs/ja.md", <<[ch |-> "JA", n |-> 10]>>),
   File("src/ja.ts", <<[ch |-> "JA", n |-> 20000]>>),
   File("src/huge.ts", Text(600 * 1024)),
   File("README.md", Text(12))}

SizeFamily ==
  /\ \E f \in {Undefined, "src/big.ts", "src/ja.ts"} :
       params = [UndefinedParams EXCEPT !.url = RepoUrl, !.file = f]
  /\ upstream = <<200, 200, 200>>
  /\ \E a \in ArchivesOver(SizeUniverse) : repoFiles = [zip |-> TRUE, members |-> a]

\* files that the dir and ext filters and the exclusion rules tell apart
FilterUniverse ==
  {File("src/a.ts", Text(7)),
   File("src/B.TS", Text(8)),
   File("src/pnpm-lock.yaml", Text(5)),
   File("yarn.lock", Text(4)),
   File("tsconfig.json", Text(2)),
   File("dist/bundle.js", Text(3)),
   File("src/x.mjs", Text(4)),
   File("Makefile", Text(6)),
   File("README.md", Text(12)),
   [rel |-> "src/", dir |-> TRUE, stray |-> FALSE, content |-> <<>>],
   [rel |-> "other-main/tsconfig.json", dir |-> FALSE, stray |-> TRUE, content |-> Text(4)]}

FilterFamily ==
  /\ \E d \in {Undefined, "src", "dist"} :
     \E e \in {Undefined, "ts", "js, yaml, lock, makefile"} :
     \E m \in {Undefined, "tree"} :
       params = [UndefinedParams EXCEPT !.url = RepoUrl, !.dir = d, !.ext = e, !.mode = m]
  /\ upstream = <<200, 200, 200>>
  /\ \E a \in ArchivesOver(FilterUniverse) : repoFiles = [zip |-> TRUE, members |-> a]

\* READMEs: with text, empty, binary, over the display limit
ReadmeUniverse ==
  {File("README.md", Text(12)),
   File("src/README.md", Text(9)),
   File("docs/readme.md", <<>>),
   File("lib/README.md", <<[ch |-> "NUL", n |-> 4]>>),
   File("docs/big/README.md", Text(40 * 1024)),
   File("src/a.ts", Text(7))}

ReadmeFamily ==
  /\ \E f \in {Undefined, "README.md"} :
       params = [UndefinedParams EXCEPT !.url = RepoUrl, !.file = f, !.mode = "tree"]
  /\ upstream = <<200, 200, 200>>
  /\ \E a \in ArchivesOver(ReadmeUniverse) : repoFiles = [zip |-> TRUE, members |-> a]

\* the fallback in front of the scan of a small repository
FallbackFamily ==
  /\ \E u \in {RepoUrl, RepoUrl \o "/tree/dev"} :
     \E b \in {Undefined, "master"} :
       params = [UndefinedParams EXCEPT !.url = u, !.branch = b]
  /\ upstream \in [1..3 -> {200, 404}]
  /\ repoFiles = SmallRepo

InitScan ==
  /\ pc = "start"
  /\ SizeFamily \/ FilterFamily \/ ReadmeFamily \/ FallbackFamily
  /\ owner = Undefined /\ repo = Undefined
  /\ pathBranch = Undefined /\ pathTargetDirs = <<>> /\ pathTargetFile = Undefined
  /\ finalTargetDirs = <<>> /\ targetExts = <<>> /\ targetFile = Undefined
  /\ isTreeMode = FALSE
  /\ branch = Undefined
  /\ requests = <<>>
  /\ zipResp = Undefined
  /\ fbIndex = 0
  /\ jszip = <<>> /\ rootPrefix = "" /\ hasTsConfig = FALSE
  /\ scanIndex = 0
  /\ fileTree = <<>> /\ originalTotalSize = 0 /\ displayTotalSize = 0
  /\ reads = <<>>
  /\ outcome = NoOutcome
  /\ httpStatus = 0

SpecScan == InitScan /\ [][Next]_vars

(***************************************************************************)
(* Properties of the scan and of the rendering (under SpecScan)            *)
(***************************************************************************)
\* the archive member behind a stored path
ArchiveFile(path) ==
  jszip[CHOOSE i \in 1..Len(jszip) : ~jszip[i].dir /\ jszip[i].name = rootPrefix \o path]

\* the scan read the member behind the path
WasRead(path) == \E i \in 1..Len(reads) : reads[i] = rootPrefix \o path

FullListing == WasRendered /\ outcome.kind = "text" /\ ~isTreeMode /\ ~Truthy(targetFile)

TreeListing == WasRendered /\ outcome.kind = "text" /\ isTreeMode /\ ~Truthy(targetFile)

\* the piece right after the heading piece in the rendered text is the body
BodyAfter(heading, body) ==
  \E k \in 1..(Len(outcome.text) - 1) :
    outcome.text[k] = [str |-> heading] /\ outcome.text[k + 1] = [body |-> body]

\* C11: every file that was read and survived the exclusion rules and whose
\* UTF-8 size is at most 30 KiB (30720 bytes included) is stored with
\* isTruncated false, with its byte size as size and as its share of the
\* display total, and with its original content, which is what gets
\* rendered for it.
C11_WithinLimitKept ==
  \A i \in 1..Len(fileTree) :
    LET e        == fileTree[i]
        original == ArchiveFile(e.path).content
        bytes    == Utf8Size(original)
    IN (WasRead(e.path) /\ bytes <= 30 * 1024) =>
         /\ e.isTruncated = FALSE
         /\ e.size = bytes
         /\ e.content = original
         /\ Len(fileTree) = 1 => displayTotalSize = bytes
         /\ FullListing => BodyAfter("<fence>" \o e.path \o "\n", original)
         /\ (TreeListing /\ Len(original) > 0) => BodyAfter("## " \o e.path \o "\n\n", original)
         /\ (WasRendered /\ Truthy(targetFile)) =>
              outcome = Resolved(<<[body |-> original]>>)

\* a file of exactly 30720 bytes and one of ten three-byte characters were
\* listed whole in FULL mode
C11_Witness ==
  /\ FullListing
  /\ \E i \in 1..Len(fileTree) :
       /\ fileTree[i].path = "src/edge.ts" /\ fileTree[i].size = 30720
       /\ ~fileTree[i].isTruncated
       /\ BodyAfter("<fence>src/edge.ts\n", Text(30720))
  /\ \E i \in 1..Len(fileTree) :
       /\ fileTree[i].path = "docs/ja.md" /\ fileTree[i].size = 30
       /\ BodyAfter("<fence>docs/ja.md\n", <<[ch |-> "JA", n |-> 10]>>)

\* the longest prefix of a content that fits in k UTF-8 bytes
RECURSIVE FirstBytes(_, _)
FirstBytes(c, k) ==
  IF Len(c) = 0 \/ k <= 0 THEN <<>>
  ELSE LET w == Utf8Width(c[1].ch)
       IN IF c[1].n * w <= k THEN <<c[1]>> \o FirstBytes(Tail(c), k - c[1].n * w)
          ELSE IF k \div w = 0 THEN <<>>
          ELSE <<[ch |-> c[1].ch, n |-> k \div w]>>

\* a stored content without its last piece (the marker of a truncated file)
KeptPart(content) == SubSeq(content, 1, Len(content) - 1)

\* C12: every file that was read and survived and whose UTF-8 size exceeds
\* 30 KiB is stored with isTruncated true and with exactly the first 30 KiB
\* of its original content followed by the marker; the amount the marker
\* reports as remaining is the original size minus 30 KiB, and that is
\* exactly the amount of original content that was cut off.
C12_OverLimitCut ==
  \A i \in 1..Len(fileTree) :
    LET e        == fileTree[i]
        original == ArchiveFile(e.path).content
        bytes    == Utf8Size(original)
    IN (WasRead(e.path) /\ bytes > 30 * 1024) =>
         /\ e.isTruncated = TRUE
         /\ e.content = FirstBytes(original, 30 * 1024)
                          \o <<[lit |-> "\n\nThis file is too large, truncated at 30KB. There is "
                                          \o ToFixed2Of1024(bytes - 30 * 1024) \o "KB remaining."]>>
         /\ bytes - 30 * 1024 = bytes - Utf8Size(KeptPart(e.content))

\* a path that contains "-lock." or ends with ".lock"
LockPath(path) == Includes(path, "-lock.") \/ EndsWith(path, ".lock")

\* the file name of a path: its last segment
BaseName(path) == LET parts == Split(path, "/") IN parts[Len(parts)]

\* the archive's file members under the root prefix, by relative path
MemberPaths ==
  {Slice(jszip[i].name, Len(rootPrefix)) :
     i \in {j \in 1..Len(jszip) : ~jszip[j].dir /\ StartsWith(jszip[j].name, rootPrefix)}}

RECURSIVE SumOfSizes(_)
SumOfSizes(tree) == IF Len(tree) = 0 THEN 0 ELSE tree[1].size + SumOfSizes(Tail(tree))

\* C13: in FULL mode a lock file (its path contains "-lock." or ends with
\* ".lock") is never stored, so it is in no line of the file tree and in no
\* block of the Files section and the totals count only the other files,
\* whatever the dir and ext filters are, also when they match it.
C13_NoLockFileInFull ==
  ~isTreeMode =>
    /\ \A i \in 1..Len(fileTree) : ~LockPath(fileTree[i].path)
    /\ originalTotalSize = SumOfSizes(fileTree)
    /\ FullListing =>
         \A p \in {q \in MemberPaths : LockPath(q)} :
           \A k \in 1..Len(outcome.text) :
             "str" \in DOMAIN outcome.text[k] => ~Includes(outcome.text[k].str, BaseName(p))

\* a FULL listing for dir=src and ext containing yaml, after the lock file
\* src/pnpm-lock.yaml passed both filters and was read
C13_Witness ==
  /\ FullListing
  /\ params.dir = "src" /\ params.ext = "js, yaml, lock, makefile"
  /\ "src/pnpm-lock.yaml" \in MemberPaths
  /\ shouldIncludeFile("src/pnpm-lock.yaml", finalTargetDirs, targetExts)
  /\ WasRead("src/pnpm-lock.yaml")

\* the members the scan has been through
Scanned == IF pc = "scan" THEN SubSeq(jszip, 1, scanIndex - 1)
           ELSE IF pc \in {"done", "responded"} /\ scanIndex > 0 THEN jszip ELSE <<>>

IsJavaScript(path) == EndsWith(path, ".js") \/ EndsWith(path, ".mjs")

\* some member under the root prefix ends with tsconfig.json
TsConfigUnderRoot ==
  \E j \in 1..Len(jszip) :
    StartsWith(jszip[j].name, rootPrefix) /\ EndsWith(jszip[j].name, "tsconfig.json")

\* C14: in FULL mode a selected file ending in .js or .mjs that passes the
\* other exclusion rules is dropped if and only if some archive member under
\* the root prefix ends with tsconfig.json, wherever under the root that
\* member is, the requested dir/ext scope notwithstanding.
C14_JsDroppedIffTsConfig ==
  ~isTreeMode =>
    \A i \in 1..Len(Scanned) :
      LET rel == Slice(Scanned[i].name, Len(rootPrefix))
      IN (/\ ~Scanned[i].dir /\ StartsWith(Scanned[i].name, rootPrefix)
          /\ WasRead(rel) /\ IsJavaScript(rel)
          /\ ~LockPath(rel) /\ Utf8Size(Scanned[i].content) <= 500 * 1024
          /\ ~isBinaryContent(Scanned[i].content))
         => (~MapHas(fileTree, rel) <=> TsConfigUnderRoot)

\* a FULL listing for dir=dist: dist/bundle.js was selected and read and is
\* dropped because of the tsconfig.json at the root, outside the scope
C14_Witness ==
  /\ FullListing
  /\ params.dir = "dist"
  /\ "tsconfig.json" \in MemberPaths /\ ~WasRead("tsconfig.json")
  /\ WasRead("dist/bundle.js") /\ ~MapHas(fileTree, "dist/bundle.js")

\* the lower-cased text after the last dot of the file name; none without a dot
FinalExtension(path) ==
  LET parts == Split(BaseName(path), ".")
  IN IF Len(parts) = 1 THEN "" ELSE ToLowerCase(parts[Len(parts)])

\* the selection rule in the words of the claim
InScope(path) ==
  /\ Len(finalTargetDirs) = 0
       \/ \E k \in 1..Len(finalTargetDirs) : StartsWith(path, finalTargetDirs[k])
  /\ Len(targetExts) = 0
       \/ \E k \in 1..Len(targetExts) : targetExts[k] = FinalExtension(path)

\* the scan took the member: it read it or stored a placeholder for it
Taken(path) == WasRead(path) \/ MapHas(fileTree, path)

\* C15: with no single-file target, a file member under the root prefix is
\* selected if and only if (there are no directory prefixes or its relative
\* path starts with one of them) and (there are no extension filters or the
\* lower-cased final extension of its file name is one of them); directory
\* members and members outside the root prefix are skipped, never read and
\* never a failure.
C15_SelectionRule ==
  (pc \in {"scan", "done", "responded"} /\ ~Truthy(targetFile)) =>
    /\ \A i \in 1..Len(Scanned) :
         LET rel == Slice(Scanned[i].name, Len(rootPrefix))
         IN IF Scanned[i].dir \/ ~StartsWith(Scanned[i].name, rootPrefix)
            THEN \A k \in 1..Len(reads) : reads[k] # Scanned[i].name
            ELSE Taken(rel) <=> InScope(rel)
    /\ \A i \in 1..Len(fileTree) : fileTree[i].path \in MemberPaths
    /\ (WasRendered /\ scanIndex > 0) => outcome.kind = "text"

\* the path ends with readme.md, in any letter case
ReadmePath(path) == EndsWith(ToLowerCase(path), "readme.md")

\* C16: in TREE mode only selected README files are read; every selected
\* member that is not a README is stored as a placeholder of size 0 and
\* empty content, unread and whatever the exclusion rules say of it; and in
\* no mode is a member read that fails the selection rule.
C16_TreeReadsOnlyReadmes ==
  /\ \A k \in 1..Len(reads) :
       /\ \E i \in 1..Len(Scanned) :
            /\ Scanned[i].name = reads[k] /\ ~Scanned[i].dir
            /\ StartsWith(reads[k], rootPrefix)
            /\ Selected(Slice(reads[k], Len(rootPrefix)))
       /\ isTreeMode => ReadmePath(reads[k])
  /\ isTreeMode =>
       \A i \in 1..Len(Scanned) :
         LET rel == Slice(Scanned[i].name, Len(rootPrefix))
         IN (/\ ~Scanned[i].dir /\ StartsWith(Scanned[i].name, rootPrefix)
             /\ Selected(rel) /\ ~ReadmePath(rel))
            => /\ ~WasRead(rel)
               /\ MapHas(fileTree, rel)
               /\ MapGet(fileTree, rel).size = 0
               /\ MapGet(fileTree, rel).content = <<>>

\* a TREE listing of README.md and the lock file src/pnpm-lock.yaml: only
\* the README was read, the lock file is a placeholder
C16_Witness ==
  /\ TreeListing
  /\ reads = <<rootPrefix \o "README.md">>
  /\ MapHas(fileTree, "README.md") /\ MapGet(fileTree, "README.md").size = 12
  /\ MapHas(fileTree, "src/pnpm-lock.yaml")
  /\ MapGet(fileTree, "src/pnpm-lock.yaml").size = 0

\* the sum of the original byte sizes of the stored files that were read
RECURSIVE OriginalSum(_)
OriginalSum(tree) ==
  IF Len(tree) = 0 THEN 0
  ELSE (IF WasRead(tree[1].path) THEN Utf8Size(ArchiveFile(tree[1].path).content) ELSE 0)
         + OriginalSum(Tail(tree))

\* the sum of their display sizes: 30 KiB when truncated, else the byte size
RECURSIVE DisplaySum(_)
DisplaySum(tree) ==
  IF Len(tree) = 0 THEN 0
  ELSE (IF ~WasRead(tree[1].path) THEN 0
        ELSE IF tree[1].isTruncated THEN 30 * 1024
        ELSE Utf8Size(ArchiveFile(tree[1].path).content))
         + DisplaySum(Tail(tree))

\* C17: in every state of the scan, originalTotalSize is the sum of the
\* original byte sizes of the files in the result mapping and
\* displayTotalSize the sum of their display sizes (30 KiB when truncated,
\* else the byte size); dropped files and TREE placeholders add nothing, and
\* displayTotalSize never exceeds originalTotalSize.
C17_TotalsAreSums ==
  /\ originalTotalSize = OriginalSum(fileTree)
  /\ displayTotalSize = DisplaySum(fileTree)
  /\ displayTotalSize <= originalTotalSize
  /\ \A i \in 1..Len(fileTree) : ~WasRead(fileTree[i].path) => fileTree[i].size = 0

\* during a scan, before the rendering, after a file of 40 KiB was stored
\* truncated and a file of 600 KiB was read and dropped
C17_Witness ==
  /\ pc = "scan" /\ scanIndex = 3
  /\ WasRead("src/huge.ts") /\ ~MapHas(fileTree, "src/huge.ts")
  /\ MapHas(fileTree, "src/big.ts") /\ MapGet(fileTree, "src/big.ts").isTruncated
  /\ originalTotalSize = 40 * 1024 /\ displayTotalSize = 30 * 1024

\* the text has this line
HasLine(line) == \E k \in 1..Len(outcome.text) : outcome.text[k] = [str |-> line]

\* the leaf of a stored file in the FULL-mode file tree, annotated with a size
LeafLine(e, bytes) ==
  LET parts == Split(e.path, "/")
  IN Repeat("  ", Len(parts) - 1) \o "<file> " \o parts[Len(parts)] \o " ("
       \o ToFixed2Of1024(bytes) \o " KB"
       \o (IF e.isTruncated THEN "->30KB truncated" ELSE "") \o ")\n"

\* C18: in the FULL-mode file tree the leaf of every stored file is annotated
\* with its display size in KiB, so that the leaf of a truncated file shows
\* 30 KiB and not its original size, followed by the truncated suffix.
C18_LeafShowsDisplaySize ==
  FullListing =>
    \A i \in 1..Len(fileTree) :
      HasLine(LeafLine(fileTree[i],
                       IF fileTree[i].isTruncated THEN 30 * 1024 ELSE fileTree[i].size))

\* C18, amended: in the FULL-mode file tree the leaf of every stored file is
\* annotated with its original size in KiB, so that the leaf of a truncated
\* file shows its original size, followed by the truncated suffix.
C18_LeafShowsOriginalSize ==
  FullListing =>
    \A i \in 1..Len(fileTree) :
      HasLine(LeafLine(fileTree[i], Utf8Size(ArchiveFile(fileTree[i].path).content)))

\* a FULL listing whose file tree has the leaf of the 40 KiB file src/big.ts
C18_Witness ==
  /\ FullListing
  /\ MapHas(fileTree, "src/big.ts") /\ MapGet(fileTree, "src/big.ts").isTruncated
  /\ HasLine("  <file> big.ts (40.00 KB->30KB truncated)\n")

\* the paths under the level-2 headings of the rendered text, in text order
RECURSIVE HeadingPaths(_)
HeadingPaths(text) ==
  IF Len(text) = 0 THEN <<>>
  ELSE (IF "str" \in DOMAIN text[1] /\ StartsWith(text[1].str, "## ")
        THEN <<SubSeq(text[1].str, 4, Len(text[1].str) - 2)>> ELSE <<>>)
         \o HeadingPaths(Tail(text))

\* the selected READMEs that were stored with non-empty content
ShownReadmes ==
  {fileTree[i].path : i \in {j \in 1..Len(fileTree) :
     ReadmePath(fileTree[j].path) /\ Len(ArchiveFile(fileTree[j].path).content) > 0}}

\* C19: in TREE mode the README Files section is there if and only if some
\* selected README has non-empty content, and it lists exactly those READMEs
\* sorted by path, as the directory listing is, whatever the order of the
\* archive's members.
C19_ReadmesInPathOrder ==
  TreeListing =>
    /\ HasLine("\n# README Files\n\n") <=> ShownReadmes # {}
    /\ HeadingPaths(outcome.text) = SortStrings(ShownReadmes)

\* the request whose response is the archive
Served == requests[Len(requests)]

\* C20: once an archive is loaded, also after a fallback, the root prefix is
\* built from the branch whose request succeeded, which after a fallback is
\* the fallback name and not the branch asked for first; so the body and the
\* prefix {repo}-{branch}/ are of the same branch and the scan finds the
\* members of the archive under the prefix.
C20_PrefixOfEffectiveBranch ==
  scanIndex > 0 =>
    /\ Served.resp.ok /\ zipResp = Served.resp
    /\ rootPrefix = repo \o "-" \o Served.branch \o "/"
    /\ Len(requests) > 1 =>
         Served.branch \in {"main", "master"} /\ Served.branch # requests[1].branch
    /\ \A i \in 1..Len(jszip) :
         ~repoFiles.members[i].stray => jszip[i].name = rootPrefix \o repoFiles.members[i].rel
    /\ (FullListing /\ repoFiles = SmallRepo) => Len(fileTree) = 3

\* dev and main answered 404, master answered 200: the listing was made
\* under repo-master/
C20_Witness ==
  /\ FullListing
  /\ RequestedBranches = <<"dev", "main", "master">>
  /\ rootPrefix = "repo-master/"
  /\ MapHas(fileTree, "src/lib/a.ts")

====
